---- MODULE Spec2Model ----
(***************************************************************************)
(* A model of random_photo_selector.py: one run of main() over a small     *)
(* file system.  Paths are sequences of file names, a file name is a       *)
(* record (stem, uid, ext) so that os.path.basename, os.path.splitext and  *)
(* the uuid renaming of the flat copy mode are computed, not assumed.      *)
(* The tqdm progress bar only wraps the two iterators and is left out.     *)
(* An environment failure is a choice of the step it hits: open() or a     *)
(* write of the CSV file, shutil.copy2, os.makedirs on a path taken by a   *)
(* regular file, os.listdir on a subdirectory removed meanwhile.  A file's *)
(* contents are named by the path of the source they were first read from. *)
(***************************************************************************)
EXTENDS Integers, Sequences, FiniteSets, TLC

VARIABLES
    fs,               \* the file system: path -> [kind, data]
    csvFile,          \* the file at --save_csv: [exists, header, rows]
    logFile,          \* random_photo_selector.log: the records written so far
    args,             \* the parsed command line
    pc,               \* where main() is
    exitStatus,       \* Running, or the status the process exited with
    uncaught,         \* TRUE when the process died of an uncaught exception
    subdirs,          \* select_random_images_from_subfolders: subdirs
    calls,            \* the finished calls of select_images_from_single_subfolder
    selected_images,  \* the Selection: an insertion-ordered dict
    displayed,        \* the paths display_image was called with
    ci,               \* copy_selected_images: index of the current subfolder
    cj,               \* copy_selected_images: index of the current image
    uuidCount,        \* how many uuid4() values the run has drawn
    initial           \* the file system and the CSV file as the run found them

vars == <<fs, csvFile, logFile, args, pc, exitStatus, uncaught, subdirs, calls,
          selected_images, displayed, ci, cj, uuidCount, initial>>

----------------------------------------------------------------------------
(* Bounds of the model. *)

\* --num_images ranges over 0..MaxNumImages
MaxNumImages == 2
\* a subfolder holds at most MaxFilesPerDir entries
MaxFilesPerDir == 2

\* exitStatus while the process has not exited
Running == -1

----------------------------------------------------------------------------
(* File names and paths. *)

Name(stem, ext) == [stem |-> stem, uid |-> 0, ext |-> ext]

ROOT == <<Name("root", "")>>
OUT == <<Name("out", "")>>
SubA == Name("A", "")
SubB == Name("B", "")
OldData == <<Name("old", "")>>

\* os.path.join(p, c)
join(p, c) == Append(p, c)
\* os.path.basename(p)
basename(p) == p[Len(p)]
\* os.path.dirname(p)
dirname(p) == SubSeq(p, 1, Len(p) - 1)

\* str.lower() on the extensions the model uses
Lower(ext) == IF ext = ".PNG" THEN ".png"
              ELSE IF ext = ".JPG" THEN ".jpg"
              ELSE ext

supported_extensions == {".jpg", ".jpeg", ".png", ".gif", ".bmp", ".tiff"}

Dir == [kind |-> "dir", data |-> <<>>]
File(data) == [kind |-> "file", data |-> data]

exists(f, p) == p \in DOMAIN f
isdir(f, p) == p \in DOMAIN f /\ f[p].kind = "dir"
isfile(f, p) == p \in DOMAIN f /\ f[p].kind = "file"

\* the names os.listdir(p) returns, as a set (the order is the caller's choice)
listdir(f, p) == {basename(q) : q \in {r \in DOMAIN f : Len(r) = Len(p) + 1 /\ dirname(r) = p}}

\* all orders in which the elements of S can be listed
Perms(S) == {s \in [1..Cardinality(S) -> S] : \A i, j \in 1..Cardinality(S) : s[i] = s[j] => i = j}

Range(s) == {s[i] : i \in 1..Len(s)}

\* f with the entries of g added or replaced
Overlay(f, g) == [p \in DOMAIN f \cup DOMAIN g |-> IF p \in DOMAIN g THEN g[p] ELSE f[p]]

----------------------------------------------------------------------------
(* The initial file systems and command lines. *)

\* what a subfolder may hold: image files, a file that is no image, and a
\* nested directory whose name ends like an image
Entries(d) ==
    IF d = SubA
    THEN {[name |-> Name("x", ".jpg"), kind |-> "file"],
          [name |-> Name("y", ".PNG"), kind |-> "file"],
          [name |-> Name("d", ".gif"), kind |-> "dir"]}
    ELSE {[name |-> Name("x", ".jpg"), kind |-> "file"],
          [name |-> Name("n", ".txt"), kind |-> "file"]}

\* the file system fragment of subfolder d holding the entries es
SubTree(d, es) ==
    [p \in {join(ROOT, d)} \cup {join(join(ROOT, d), e.name) : e \in es} |->
        IF p = join(ROOT, d) THEN Dir
        ELSE IF (CHOOSE e \in es : e.name = basename(p)).kind = "dir" THEN Dir
        ELSE File(p)]

EmptyFs == [p \in {} |-> Dir]

SubTrees(d) ==
    {EmptyFs} \cup
    {SubTree(d, es) : es \in {s \in SUBSET Entries(d) : Cardinality(s) <= MaxFilesPerDir}}

\* the root folder: missing, a regular file, or a directory holding a stray
\* file and any of the subfolders A and B
RootTrees ==
    {EmptyFs, [p \in {ROOT} |-> File(OldData)]} \cup
    {Overlay(Overlay([p \in {ROOT, join(ROOT, Name("r", ".jpg"))} |->
                         IF p = ROOT THEN Dir ELSE File(p)], ta), tb) :
        ta \in SubTrees(SubA), tb \in SubTrees(SubB)}

\* the output directory before the run: missing, a regular file in its place,
\* or a directory left by an earlier run
OutTrees ==
    {EmptyFs,
     [p \in {OUT} |-> File(OldData)],
     [p \in {OUT, join(OUT, Name("x", ".jpg")), join(OUT, SubA),
             join(join(OUT, SubA), Name("x", ".jpg")),
             join(join(OUT, SubA), Name("keep", ".jpg")),
             join(OUT, SubB)} |->
        IF p \in {OUT, join(OUT, SubA)} THEN Dir ELSE File(OldData)]}

NoCsv == [exists |-> FALSE, header |-> FALSE, rows |-> <<>>]
OldCsv == [exists |-> TRUE, header |-> TRUE,
           rows |-> <<[subfolder |-> Name("old", ""), path |-> OldData]>>]

Args ==
    [root_folder : {ROOT}, num_images : 0..MaxNumImages, display : BOOLEAN,
     save_csv : BOOLEAN, output_dir : BOOLEAN, maintain_structure : BOOLEAN]

\* the output directory and the CSV file matter only to a run given
\* --output_dir and --save_csv: without the option they start missing
Init ==
    /\ args \in Args
    /\ \E rt \in RootTrees, ot \in OutTrees :
          /\ (~args.output_dir) => ot = EmptyFs
          /\ fs = Overlay(rt, ot)
    /\ csvFile \in (IF args.save_csv THEN {NoCsv, OldCsv} ELSE {NoCsv})
    /\ logFile = <<>>
    /\ pc = "start"
    /\ exitStatus = Running
    /\ uncaught = FALSE
    /\ subdirs = <<>>
    /\ calls = <<>>
    /\ selected_images = <<>>
    /\ displayed = <<>>
    /\ ci = 1
    /\ cj = 1
    /\ uuidCount = 0
    /\ initial = [fs |-> fs, csvFile |-> csvFile]

----------------------------------------------------------------------------
(* Logging. *)

Rec(level, event, a, b) == [level |-> level, event |-> event, a |-> a, b |-> b]

\* logging.<level>(...): one record appended to the log file
Log(l, level, event, a, b) == Append(l, Rec(level, event, a, b))

----------------------------------------------------------------------------
(* The Directory Scanner. *)

\* get_subdirectories(root_folder), as a set: os.listdir gives no order
get_subdirectories(f, root_folder) ==
    {join(root_folder, d) : d \in {e \in listdir(f, root_folder) : isdir(f, join(root_folder, e))}}

\* whether get_image_files keeps the entry `file` of folder_path
IsImageFile(f, folder_path, file) ==
    /\ Lower(file.ext) \in supported_extensions
    /\ isfile(f, join(folder_path, file))

\* get_image_files(folder_path), as a set: os.listdir gives no order
get_image_files(f, folder_path) ==
    {join(folder_path, file) : file \in {e \in listdir(f, folder_path) : IsImageFile(f, folder_path, e)}}

----------------------------------------------------------------------------
(* The Sampler. *)

\* random.choices(images, k=k) in place of random.sample: positions may repeat
SampleWithReplacement(images, k) ==
    {[i \in 1..k |-> images[pos[i]]] : pos \in [1..k -> 1..Len(images)]}

\* random.sample(images, k): every list of k elements taken from k distinct
\* positions of images
Sample(images, k) ==
    {[i \in 1..k |-> images[pos[i]]] :
        pos \in {q \in [1..k -> 1..Len(images)] : \A i, j \in 1..k : q[i] = q[j] => i = j}}

\* the lists select_images_from_single_subfolder may return for the candidate
\* list images
SelectFrom(images, num_images) ==
    IF images = <<>> THEN {<<>>}
    ELSE IF num_images > Len(images) THEN {images}
    ELSE Sample(images, num_images)

\* what select_images_from_single_subfolder logs for the candidate list images
SelectLog(l, subdir, images, num_images) ==
    IF images = <<>> THEN Log(l, "WARNING", "no_images", subdir, <<>>)
    ELSE IF num_images > Len(images) THEN Log(l, "INFO", "fewer_available", subdir, <<>>)
    ELSE l

\* selected_images[subfolder] = selected, on an insertion-ordered dict
DictPut(d, subfolder, selected) ==
    IF \E i \in 1..Len(d) : d[i].subfolder = subfolder
    THEN [i \in 1..Len(d) |->
            IF d[i].subfolder = subfolder THEN [d[i] EXCEPT !.images = selected] ELSE d[i]]
    ELSE Append(d, [subfolder |-> subfolder, images |-> selected])

\* the loop body without its `if selected:` test
CollectAlways(d, subfolder, selected) == DictPut(d, subfolder, selected)

\* the loop body of select_random_images_from_subfolders
Collect(d, subfolder, selected) ==
    IF selected # <<>> THEN DictPut(d, subfolder, selected) ELSE d

Keys(d) == {d[i].subfolder : i \in 1..Len(d)}

----------------------------------------------------------------------------
(* main(): validation. *)

\* main, line 287: os.path.isdir(root_folder)
ValidRoot(f, root_folder) == isdir(f, root_folder)

\* the validation of main, line 292, with the comparison off by one
ValidCountOffByOne(num_images) == ~(num_images < 0)

\* main, line 292: the program goes on when num_images < 1 is false
ValidCount(num_images) == ~(num_images < 1)

Exit(status) ==
    /\ pc' = "exit"
    /\ exitStatus' = status

\* main, lines 286-289: the root folder is no directory
RootInvalid ==
    /\ pc = "start"
    /\ ~ValidRoot(fs, args.root_folder)
    /\ logFile' = Log(logFile, "ERROR", "bad_root", args.root_folder, <<>>)
    /\ Exit(1)
    /\ UNCHANGED <<fs, csvFile, args, uncaught, subdirs, calls, selected_images,
                   displayed, ci, cj, uuidCount, initial>>

\* main, lines 291-294: num_images < 1
CountInvalid ==
    /\ pc = "start"
    /\ ValidRoot(fs, args.root_folder)
    /\ ~ValidCount(args.num_images)
    /\ logFile' = Log(logFile, "ERROR", "bad_count", <<>>, <<>>)
    /\ Exit(1)
    /\ UNCHANGED <<fs, csvFile, args, uncaught, subdirs, calls, selected_images,
                   displayed, ci, cj, uuidCount, initial>>

----------------------------------------------------------------------------
(* select_random_images_from_subfolders. *)

\* main, lines 296-298, and the function up to its loop: the subdirectories
\* are listed; with none of them the function returns the empty dict
SelectStart ==
    /\ pc = "start"
    /\ ValidRoot(fs, args.root_folder)
    /\ ValidCount(args.num_images)
    /\ \E listed \in Perms(get_subdirectories(fs, args.root_folder)) :
          /\ subdirs' = listed
          /\ IF listed = <<>>
             THEN /\ logFile' = Log(Log(logFile, "INFO", "selecting", args.root_folder, <<>>),
                                    "WARNING", "no_subdirs", args.root_folder, <<>>)
                  /\ pc' = "selected"
             ELSE /\ logFile' = Log(logFile, "INFO", "selecting", args.root_folder, <<>>)
                  /\ pc' = "select"
    /\ UNCHANGED <<fs, csvFile, args, exitStatus, uncaught, calls, selected_images,
                   displayed, ci, cj, uuidCount, initial>>

\* one iteration of the loop: select_images_from_single_subfolder on the next
\* subdirectory, whose listing succeeds
SelectStep ==
    /\ pc = "select"
    /\ LET subdir == subdirs[Len(calls) + 1] IN
       /\ isdir(fs, subdir)
       /\ \E images \in Perms(get_image_files(fs, subdir)) :
          \E selected \in SelectFrom(images, args.num_images) :
             /\ calls' = Append(calls, [subdir |-> subdir, num_images |-> args.num_images,
                                        images |-> images, subfolder |-> basename(subdir),
                                        selected |-> selected])
             /\ logFile' = SelectLog(logFile, subdir, images, args.num_images)
             /\ selected_images' = Collect(selected_images, basename(subdir), selected)
    /\ pc' = IF Len(calls) + 1 = Len(subdirs) THEN "selected" ELSE "select"
    /\ UNCHANGED <<fs, csvFile, args, exitStatus, uncaught, subdirs, displayed, ci, cj,
                   uuidCount, initial>>

\* one iteration of the loop on a subdirectory that is gone: os.listdir raises
\* FileNotFoundError, which nothing catches, and the interpreter exits with 1
SelectStepRaises ==
    /\ pc = "select"
    /\ ~isdir(fs, subdirs[Len(calls) + 1])
    /\ uncaught' = TRUE
    /\ Exit(1)
    /\ UNCHANGED <<fs, csvFile, logFile, args, subdirs, calls, selected_images,
                   displayed, ci, cj, uuidCount, initial>>

\* the environment: another process removes the subdirectory the loop is
\* about to list
RemoveSubdir ==
    /\ pc = "select"
    /\ LET d == subdirs[Len(calls) + 1] IN
          /\ isdir(fs, d)
          /\ fs' = [p \in {q \in DOMAIN fs : q # d /\ dirname(q) # d} |-> fs[p]]
    /\ UNCHANGED <<csvFile, logFile, args, pc, exitStatus, uncaught, subdirs, calls,
                   selected_images, displayed, ci, cj, uuidCount, initial>>

\* lines 300-302 without sys.exit(0): main goes on to the later stages
NothingSelectedGoesOn ==
    /\ pc = "selected"
    /\ selected_images = <<>>
    /\ logFile' = Log(logFile, "INFO", "none_selected", <<>>, <<>>)
    /\ pc' = "csv"
    /\ UNCHANGED <<fs, csvFile, args, exitStatus, uncaught, subdirs, calls,
                   selected_images, displayed, ci, cj, uuidCount, initial>>

\* main, lines 300-302: nothing was selected
NothingSelected ==
    /\ pc = "selected"
    /\ selected_images = <<>>
    /\ logFile' = Log(logFile, "INFO", "none_selected", <<>>, <<>>)
    /\ Exit(0)
    /\ UNCHANGED <<fs, csvFile, args, uncaught, subdirs, calls, selected_images,
                   displayed, ci, cj, uuidCount, initial>>

----------------------------------------------------------------------------
(* The Reporter. *)

\* the image paths of the Selection, in iteration order
AllImages(d) ==
    LET RECURSIVE Flat(_)
        Flat(k) == IF k = 0 THEN <<>> ELSE Flat(k - 1) \o d[k].images
    IN Flat(Len(d))

\* the rows save_selected_images_to_csv writes, in order
CsvRows(d) ==
    LET RECURSIVE Rows(_)
        Rows(k) == IF k = 0 THEN <<>>
                   ELSE Rows(k - 1) \o
                        [j \in 1..Len(d[k].images) |->
                            [subfolder |-> d[k].subfolder, path |-> d[k].images[j]]]
    IN Rows(Len(d))

\* main, lines 304-311: every selected image is handed to display_image,
\* which catches its own errors
Display ==
    /\ pc = "selected"
    /\ selected_images # <<>>
    /\ args.display
    /\ logFile' = Log(logFile, "INFO", "displaying", <<>>, <<>>)
    /\ displayed' = AllImages(selected_images)
    /\ pc' = "csv"
    /\ UNCHANGED <<fs, csvFile, args, exitStatus, uncaught, subdirs, calls,
                   selected_images, ci, cj, uuidCount, initial>>

\* main, line 305: --display was not given
SkipDisplay ==
    /\ pc = "selected"
    /\ selected_images # <<>>
    /\ ~args.display
    /\ pc' = "csv"
    /\ UNCHANGED <<fs, csvFile, logFile, args, exitStatus, uncaught, subdirs, calls,
                   selected_images, displayed, ci, cj, uuidCount, initial>>

\* save_selected_images_to_csv, all rows written
SaveCsv ==
    /\ pc = "csv"
    /\ args.save_csv
    /\ csvFile' = [exists |-> TRUE, header |-> TRUE, rows |-> CsvRows(selected_images)]
    /\ logFile' = Log(logFile, "INFO", "csv_saved", <<>>, <<>>)
    /\ pc' = "copy"
    /\ UNCHANGED <<fs, args, exitStatus, uncaught, subdirs, calls, selected_images,
                   displayed, ci, cj, uuidCount, initial>>

\* open() raises with no try around it: the exception ends the process
SaveCsvOpenUncaught ==
    /\ pc = "csv"
    /\ args.save_csv
    /\ uncaught' = TRUE
    /\ Exit(1)
    /\ UNCHANGED <<fs, csvFile, logFile, args, subdirs, calls, selected_images,
                   displayed, ci, cj, uuidCount, initial>>

\* save_selected_images_to_csv, open() raises: the file is left as it was
SaveCsvOpenFails ==
    /\ pc = "csv"
    /\ args.save_csv
    /\ logFile' = Log(logFile, "ERROR", "csv_failed", <<>>, <<>>)
    /\ pc' = "copy"
    /\ UNCHANGED <<fs, csvFile, args, exitStatus, uncaught, subdirs, calls,
                   selected_images, displayed, ci, cj, uuidCount, initial>>

\* save_selected_images_to_csv, a write raises: the file was truncated by
\* open() and holds the header and the rows written before the error
SaveCsvWriteFails ==
    /\ pc = "csv"
    /\ args.save_csv
    /\ \E k \in 0..(Len(CsvRows(selected_images)) - 1) :
          csvFile' = [exists |-> TRUE, header |-> TRUE,
                      rows |-> SubSeq(CsvRows(selected_images), 1, k)]
    /\ logFile' = Log(logFile, "ERROR", "csv_failed", <<>>, <<>>)
    /\ pc' = "copy"
    /\ UNCHANGED <<fs, args, exitStatus, uncaught, subdirs, calls, selected_images,
                   displayed, ci, cj, uuidCount, initial>>

\* main, line 314: --save_csv was not given
SkipCsv ==
    /\ pc = "csv"
    /\ ~args.save_csv
    /\ pc' = "copy"
    /\ UNCHANGED <<fs, csvFile, logFile, args, exitStatus, uncaught, subdirs, calls,
                   selected_images, displayed, ci, cj, uuidCount, initial>>

----------------------------------------------------------------------------
(* The Copier. *)

\* whether os.makedirs(p, exist_ok=True) raises: something that is no
\* directory is in the way
makedirs_raises(f, p) == exists(f, p) /\ ~isdir(f, p)

\* the file system after os.makedirs(p, exist_ok=True) returned
makedirs(f, p) == IF exists(f, p) THEN f ELSE Overlay(f, [q \in {p} |-> Dir])

\* the file system after shutil.copy2(src, dst) returned: dst is created or
\* overwritten with the contents of src
copy2(f, src, dst) == Overlay(f, [q \in {dst} |-> File(f[src].data)])

\* f"{file_name}_{unique_id}{file_extension}"; unique_id stands for a uuid4,
\* taken to differ from every one drawn before (the n-th draw is n) and from
\* every suffix in a name the run finds on disk
UniqueName(name, unique_id) == [stem |-> name.stem, uid |-> unique_id, ext |-> name.ext]

\* the structured destination built from output_dir instead of dest_subdir
StructuredDestFlattened(output_dir, subfolder, img_path) ==
    join(output_dir, basename(img_path))

\* lines 220-222: the destination in structure-preserving mode
StructuredDest(output_dir, subfolder, img_path) ==
    join(join(output_dir, subfolder), basename(img_path))

\* the flat destination without the os.path.exists test of line 228
FlatDestUnchecked(f, output_dir, img_path, unique_id) ==
    join(output_dir, basename(img_path))

\* lines 225-232: the destination in flat mode
FlatDest(f, output_dir, img_path, unique_id) ==
    IF exists(f, join(output_dir, basename(img_path)))
    THEN join(output_dir, UniqueName(basename(img_path), unique_id))
    ELSE join(output_dir, basename(img_path))

\* the index pair of the image after (ci, cj), or the loops' end
Advance ==
    IF cj < Len(selected_images[ci].images)
    THEN /\ ci' = ci
         /\ cj' = cj + 1
         /\ pc' = "copying"
    ELSE IF ci < Len(selected_images)
    THEN /\ ci' = ci + 1
         /\ cj' = 1
         /\ pc' = "copying"
    ELSE /\ ci' = ci
         /\ cj' = cj
         /\ pc' = "copied"

\* lines 239-241 with the inner try left out: the error reaches lines 244-246
\* and ends the whole batch
CopyFailedAborts(l, img_path, dest_path) ==
    /\ logFile' = Log(l, "ERROR", "copy_failed", img_path, dest_path)
    /\ pc' = "finish"
    /\ UNCHANGED <<ci, cj>>

\* lines 239-241: shutil.copy2 raised; the error is logged and the loop goes on
CopyFailed(l, img_path, dest_path) ==
    /\ logFile' = Log(l, "ERROR", "copy_failed", img_path, dest_path)
    /\ Advance

\* lines 237-238: shutil.copy2 returned; the copy is logged and the loop goes on
Copied(l, img_path, dest_path) ==
    /\ logFile' = Log(l, "INFO", "copied", img_path, dest_path)
    /\ Advance

\* copy_selected_images, line 209: the output directory exists or is made
CopyStart ==
    /\ pc = "copy"
    /\ args.output_dir
    /\ ~makedirs_raises(fs, OUT)
    /\ fs' = makedirs(fs, OUT)
    /\ ci' = 1
    /\ cj' = 1
    /\ pc' = "copying"
    /\ UNCHANGED <<csvFile, logFile, args, exitStatus, uncaught, subdirs, calls,
                   selected_images, displayed, uuidCount, initial>>

\* line 209 raises with no try around it: the exception ends the process
CopyStartUncaught ==
    /\ pc = "copy"
    /\ args.output_dir
    /\ makedirs_raises(fs, OUT)
    /\ uncaught' = TRUE
    /\ Exit(1)
    /\ UNCHANGED <<fs, csvFile, logFile, args, subdirs, calls, selected_images,
                   displayed, ci, cj, uuidCount, initial>>

\* copy_selected_images, line 209 raises: lines 244-246 log it and return
CopyStartRaises ==
    /\ pc = "copy"
    /\ args.output_dir
    /\ makedirs_raises(fs, OUT)
    /\ logFile' = Log(logFile, "ERROR", "copy_aborted", OUT, <<>>)
    /\ pc' = "finish"
    /\ UNCHANGED <<fs, csvFile, args, exitStatus, uncaught, subdirs, calls,
                   selected_images, displayed, ci, cj, uuidCount, initial>>

\* main, line 318: --output_dir was not given
SkipCopy ==
    /\ pc = "copy"
    /\ ~args.output_dir
    /\ pc' = "finish"
    /\ UNCHANGED <<fs, csvFile, logFile, args, exitStatus, uncaught, subdirs, calls,
                   selected_images, displayed, ci, cj, uuidCount, initial>>

\* one image in structure-preserving mode, lines 218-222 and 235-241;
\* shutil.copy2 succeeds or raises
CopyStructured ==
    /\ pc = "copying"
    /\ args.maintain_structure
    /\ LET subfolder == selected_images[ci].subfolder
           img_path == selected_images[ci].images[cj]
           dest_subdir == join(OUT, subfolder)
           dest_path == StructuredDest(OUT, subfolder, img_path)
       IN /\ ~makedirs_raises(fs, dest_subdir)
          /\ \/ /\ isfile(fs, img_path)
                /\ fs' = copy2(makedirs(fs, dest_subdir), img_path, dest_path)
                /\ Copied(logFile, img_path, dest_path)
             \/ /\ fs' = makedirs(fs, dest_subdir)
                /\ CopyFailed(logFile, img_path, dest_path)
    /\ UNCHANGED <<csvFile, args, exitStatus, uncaught, subdirs, calls, selected_images,
                   displayed, uuidCount, initial>>

\* one image in structure-preserving mode whose os.makedirs(dest_subdir)
\* raises, line 221: lines 244-246 log it and the function returns
CopyStructuredRaises ==
    /\ pc = "copying"
    /\ args.maintain_structure
    /\ makedirs_raises(fs, join(OUT, selected_images[ci].subfolder))
    /\ logFile' = Log(logFile, "ERROR", "copy_aborted", OUT, <<>>)
    /\ pc' = "finish"
    /\ UNCHANGED <<fs, csvFile, args, exitStatus, uncaught, subdirs, calls,
                   selected_images, displayed, ci, cj, uuidCount, initial>>

\* one image in flat mode, lines 224-241; shutil.copy2 succeeds or raises
CopyFlat ==
    /\ pc = "copying"
    /\ ~args.maintain_structure
    /\ LET img_path == selected_images[ci].images[cj]
           conflict == exists(fs, join(OUT, basename(img_path)))
           dest_path == FlatDest(fs, OUT, img_path, uuidCount + 1)
           renamed == IF conflict
                      THEN Log(logFile, "INFO", "renamed", img_path, dest_path)
                      ELSE logFile
       IN /\ uuidCount' = IF conflict THEN uuidCount + 1 ELSE uuidCount
          /\ \/ /\ isfile(fs, img_path)
                /\ fs' = copy2(fs, img_path, dest_path)
                /\ Copied(renamed, img_path, dest_path)
             \/ /\ fs' = fs
                /\ CopyFailed(renamed, img_path, dest_path)
    /\ UNCHANGED <<csvFile, args, exitStatus, uncaught, subdirs, calls, selected_images,
                   displayed, initial>>

\* copy_selected_images, line 243: both loops are done
CopyDone ==
    /\ pc = "copied"
    /\ logFile' = Log(logFile, "INFO", "all_copied", OUT, <<>>)
    /\ pc' = "finish"
    /\ UNCHANGED <<fs, csvFile, args, exitStatus, uncaught, subdirs, calls,
                   selected_images, displayed, ci, cj, uuidCount, initial>>

\* main, line 321: the run is over and the interpreter exits with 0
Finish ==
    /\ pc = "finish"
    /\ logFile' = Log(logFile, "INFO", "completed", <<>>, <<>>)
    /\ Exit(0)
    /\ UNCHANGED <<fs, csvFile, args, uncaught, subdirs, calls, selected_images,
                   displayed, ci, cj, uuidCount, initial>>

Next ==
    \/ RootInvalid
    \/ CountInvalid
    \/ SelectStart
    \/ SelectStep
    \/ SelectStepRaises
    \/ RemoveSubdir
    \/ NothingSelected
    \/ Display
    \/ SkipDisplay
    \/ SaveCsv
    \/ SaveCsvOpenFails
    \/ SaveCsvWriteFails
    \/ SkipCsv
    \/ CopyStart
    \/ CopyStartRaises
    \/ SkipCopy
    \/ CopyStructured
    \/ CopyStructuredRaises
    \/ CopyFlat
    \/ CopyDone
    \/ Finish

Spec == Init /\ [][Next]_vars

----------------------------------------------------------------------------
(* What the properties below read off a state. *)

Min(a, b) == IF a < b THEN a ELSE b

Distinct(s) == \A i, j \in 1..Len(s) : s[i] = s[j] => i = j

HasEvent(event) == \E i \in 1..Len(logFile) : logFile[i].event = event

LastEvent == IF logFile = <<>> THEN "" ELSE logFile[Len(logFile)].event

IsAttempt(r) == r.event \in {"copied", "copy_failed"}

\* the log records of the copies tried so far, and of those that succeeded
Attempts == SelectSeq(logFile, IsAttempt)
IsCopied(r) == r.event = "copied"
CopiedRecs == SelectSeq(logFile, IsCopied)

Sources(recs) == [i \in 1..Len(recs) |-> recs[i].a]

\* the root folder is no directory or num_images < 1
InvalidInput == ~isdir(initial.fs, args.root_folder) \/ args.num_images < 1

\* the loop of select_random_images_from_subfolders has run to its end
SamplingDone ==
    /\ ~InvalidInput
    /\ pc \notin {"start", "select"}
    /\ Len(calls) = Len(subdirs)

\* the entries of the file system under the output directory
OutPart(f) == [p \in {q \in DOMAIN f : q[1] = OUT[1]} |-> f[p]]

\* how many selected images come before the image at (ci, cj)
CopyPosition ==
    IF pc = "copied" THEN Len(AllImages(selected_images))
    ELSE Len(AllImages(SubSeq(selected_images, 1, ci - 1))) + cj - 1

\* path p of the file system f is a regular file holding data
Holds(f, p, data) == p \in DOMAIN f /\ f[p] = File(data)

FullCsv == [exists |-> TRUE, header |-> TRUE, rows |-> CsvRows(selected_images)]

----------------------------------------------------------------------------
(* C1 *)

\* C1: every finished call of select_images_from_single_subfolder on a
\* non-empty candidate list, with num_images >= 1, returned min(num_images,
\* number of candidates) paths, all distinct and all candidates; with fewer
\* candidates than num_images it returned the whole candidate list.
C1_SampleSize ==
    \A i \in 1..Len(calls) :
        LET c == calls[i] IN
        (c.images # <<>> /\ c.num_images >= 1) =>
            /\ Len(c.selected) = Min(c.num_images, Len(c.images))
            /\ Distinct(c.selected)
            /\ Range(c.selected) \subseteq Range(c.images)
            /\ Range(c.images) = get_image_files(initial.fs, c.subdir)
            /\ (Len(c.images) < c.num_images => Range(c.selected) = Range(c.images))
            /\ (Len(c.images) >= c.num_images => Len(c.selected) = c.num_images)

\* a run that sampled one subfolder with at least num_images candidates and
\* one with fewer
C1_Witness ==
    /\ \E i \in 1..Len(calls) :
          Len(calls[i].images) = 2 /\ calls[i].num_images = 2 /\ Len(calls[i].selected) = 2
    /\ \E i \in 1..Len(calls) :
          Len(calls[i].images) = 1 /\ calls[i].num_images = 2 /\ Len(calls[i].selected) = 1

----------------------------------------------------------------------------
(* C2 *)

\* the subfolders of the root that hold at least one image file
SubfoldersWithImages ==
    {basename(d) : d \in {e \in get_subdirectories(initial.fs, ROOT) :
                            get_image_files(initial.fs, e) # {}}}

\* C2: at every moment the Selection has no entry with an empty list and no
\* entry for a subfolder whose candidate list was empty; once sampling is
\* complete its keys are exactly the subfolders holding an image file.
C2_NoEmptyEntries ==
    /\ \A k \in 1..Len(selected_images) :
          /\ selected_images[k].images # <<>>
          /\ selected_images[k].subfolder \in SubfoldersWithImages
          /\ \E i \in 1..Len(calls) :
                /\ calls[i].subfolder = selected_images[k].subfolder
                /\ calls[i].images # <<>>
    /\ \A i \in 1..Len(calls) :
          calls[i].images = <<>> => calls[i].subfolder \notin Keys(selected_images)
    /\ SamplingDone => Keys(selected_images) = SubfoldersWithImages

\* sampling is complete over A with images and B without: only A has an entry
C2_Witness ==
    /\ pc = "selected"
    /\ Len(subdirs) = 2
    /\ Keys(selected_images) = {SubA}
    /\ \E i \in 1..Len(calls) : calls[i].subfolder = SubB /\ calls[i].images = <<>>

----------------------------------------------------------------------------
(* C3 *)

\* C3 as claimed: a run on an invalid root folder or with num_images < 1 exits
\* with status 1 having written no file of any kind, listed no directory and
\* computed no Selection.
C3_NoFileAtAll ==
    (InvalidInput /\ pc = "exit") =>
        /\ exitStatus = 1
        /\ logFile = <<>>
        /\ fs = initial.fs
        /\ csvFile = initial.csvFile
        /\ subdirs = <<>>
        /\ calls = <<>>
        /\ selected_images = <<>>

\* C3 as amended: such a run never leaves the validation, and exits with
\* status 1 having written nothing but one ERROR record to its log file:
\* the file system and the CSV file are as found, no directory was listed and
\* no Selection computed.
C3_OnlyTheLogWritten ==
    InvalidInput =>
        /\ pc \in {"start", "exit"}
        /\ fs = initial.fs
        /\ csvFile = initial.csvFile
        /\ subdirs = <<>>
        /\ calls = <<>>
        /\ selected_images = <<>>
        /\ displayed = <<>>
        /\ ~uncaught
        /\ pc = "start" => logFile = <<>>
        /\ pc = "exit" =>
              /\ exitStatus = 1
              /\ Len(logFile) = 1
              /\ logFile[1].level = "ERROR"

\* a run with num_images = 0 over a root holding images, asked for a CSV file
\* and an output directory, has exited
C3_Witness ==
    /\ pc = "exit"
    /\ exitStatus = 1
    /\ args.num_images = 0
    /\ args.save_csv /\ args.output_dir /\ args.display
    /\ SubfoldersWithImages # {}

----------------------------------------------------------------------------
(* C4 *)

\* C4: in flat mode every file of the output directory, found there by the run
\* or copied there by it, keeps its contents to the end; of two copied sources
\* sharing a base name the later one sits under a new name made of the base
\* name, a unique suffix and the same extension, the earlier one under the
\* base name itself unless that name was taken before it.
C4_FlatNeverOverwrites ==
    (~args.maintain_structure) =>
        /\ \A p \in DOMAIN OutPart(initial.fs) :
              \/ p \in DOMAIN fs /\ fs[p] = initial.fs[p]
              \/ p = OUT /\ isdir(fs, OUT)
        /\ \A i \in 1..Len(CopiedRecs) :
              /\ Holds(fs, CopiedRecs[i].b, CopiedRecs[i].a)
              /\ dirname(CopiedRecs[i].b) = OUT
        /\ \A i, j \in 1..Len(CopiedRecs) :
              (i < j /\ basename(CopiedRecs[i].a) = basename(CopiedRecs[j].a)) =>
                  /\ CopiedRecs[i].b # CopiedRecs[j].b
                  /\ basename(CopiedRecs[j].b).uid > 0
                  /\ basename(CopiedRecs[j].b).stem = basename(CopiedRecs[j].a).stem
                  /\ basename(CopiedRecs[j].b).ext = basename(CopiedRecs[j].a).ext
                  /\ ( /\ join(OUT, basename(CopiedRecs[i].a)) \notin DOMAIN initial.fs
                       /\ \A k \in 1..(i - 1) :
                             basename(CopiedRecs[k].a) # basename(CopiedRecs[i].a) )
                     => CopiedRecs[i].b = join(OUT, basename(CopiedRecs[i].a))

\* a flat copy into a fresh output directory has put A/x.jpg and B/x.jpg side
\* by side, the second one renamed
C4_Witness ==
    /\ ~args.maintain_structure
    /\ pc = "exit"
    /\ ~exists(initial.fs, OUT)
    /\ \E i, j \in 1..Len(CopiedRecs) :
          /\ i < j
          /\ CopiedRecs[i].a # CopiedRecs[j].a
          /\ basename(CopiedRecs[i].a) = basename(CopiedRecs[j].a)
          /\ basename(CopiedRecs[i].b) = basename(CopiedRecs[i].a)
          /\ basename(CopiedRecs[j].b).uid > 0
          /\ Holds(fs, CopiedRecs[i].b, CopiedRecs[i].a)
          /\ Holds(fs, CopiedRecs[j].b, CopiedRecs[j].a)

----------------------------------------------------------------------------
(* C5 *)

SelectedNames(k) == {basename(selected_images[k].images[j]) : j \in 1..Len(selected_images[k].images)}

CopiedNames(k) ==
    {basename(CopiedRecs[i].a) : i \in {n \in 1..Len(CopiedRecs) :
        dirname(CopiedRecs[n].b) = join(OUT, selected_images[k].subfolder)}}

----------------------------------------------------------------------------
(* C6 *)

\* C6: a failed copy leaves the loops running: while they run the copies
\* tried so far are exactly the selected images before the current one, in
\* order, whatever failed among them; when they have run to the end every
\* selected image was tried; and every file copied so far is in the output
\* directory with its source's contents.
C6_FailureDoesNotAbort ==
    /\ pc \in {"copying", "copied"} =>
          Sources(Attempts) = SubSeq(AllImages(selected_images), 1, CopyPosition)
    /\ HasEvent("all_copied") => Sources(Attempts) = AllImages(selected_images)
    /\ LastEvent = "copy_failed" => pc \in {"copying", "copied"}
    /\ \A i \in 1..Len(CopiedRecs) :
          /\ Holds(fs, CopiedRecs[i].b, CopiedRecs[i].a)
          /\ CopiedRecs[i].b[1] = OUT[1]

\* the loops are done: a copy succeeded, the next failed, a later one succeeded
C6_Witness ==
    /\ pc = "copied"
    /\ \E i, j, k \in 1..Len(Attempts) :
          /\ i < j /\ j < k
          /\ Attempts[i].event = "copied"
          /\ Attempts[j].event = "copy_failed"
          /\ Attempts[k].event = "copied"
          /\ isfile(fs, Attempts[i].b)

----------------------------------------------------------------------------
(* C7 *)

\* C7: when the output directory cannot be created, the Copier logs the error
\* and copies nothing, the process does not die, what the CSV and Display
\* stages produced is as they left it, and the exit status is 0.
C7_OutputDirFailure ==
    ( /\ args.output_dir
      /\ makedirs_raises(initial.fs, OUT)
      /\ SamplingDone
      /\ selected_images # <<>>
      /\ pc \in {"finish", "exit"} ) =>
        /\ HasEvent("copy_aborted")
        /\ Attempts = <<>>
        /\ fs = initial.fs
        /\ ~uncaught
        /\ pc = "exit" => exitStatus = 0 /\ LastEvent = "completed"
        /\ HasEvent("csv_saved") => csvFile = FullCsv
        /\ (~args.save_csv) => csvFile = initial.csvFile
        /\ displayed = IF args.display THEN AllImages(selected_images) ELSE <<>>

\* a run that wrote its CSV file and showed its previews has exited with 0
\* although a regular file sits where the output directory should be
C7_Witness ==
    /\ pc = "exit"
    /\ exitStatus = 0
    /\ args.output_dir
    /\ makedirs_raises(fs, OUT)
    /\ HasEvent("copy_aborted")
    /\ csvFile = FullCsv
    /\ displayed # <<>>

----------------------------------------------------------------------------
(* C8 *)

\* the Selection the finished calls add up to
SelectionOf(cs) ==
    LET RECURSIVE Built(_)
        Built(k) == IF k = 0 THEN <<>>
                    ELSE Collect(Built(k - 1), cs[k].subfolder, cs[k].selected)
    IN Built(Len(cs))

\* the CSV stage is over and the CSV file does not hold the Selection
CsvFailed ==
    /\ args.save_csv
    /\ SamplingDone
    /\ selected_images # <<>>
    /\ pc \notin {"selected", "csv"}
    /\ csvFile # FullCsv

\* C8: after a failed CSV write the error is logged, the process does not
\* die, the previews asked for were shown, the Selection is what the Sampler
\* built, the Copier (when asked for) runs, over every selected image unless a
\* directory cannot be made, and the exit status is 0.
C8_CsvFailureNotFatal ==
    CsvFailed =>
        /\ HasEvent("csv_failed")
        /\ ~uncaught
        /\ pc \in {"copy", "copying", "copied", "finish", "exit"}
        /\ displayed = IF args.display THEN AllImages(selected_images) ELSE <<>>
        /\ selected_images = SelectionOf(calls)
        /\ pc = "exit" => exitStatus = 0 /\ LastEvent = "completed"
        /\ (args.output_dir /\ pc \in {"finish", "exit"}) =>
              HasEvent("all_copied") \/ HasEvent("copy_aborted")
        /\ (args.output_dir /\ pc \in {"finish", "exit"} /\ ~HasEvent("copy_aborted")) =>
              Sources(Attempts) = AllImages(selected_images)
        /\ (~args.output_dir) => Attempts = <<>>

\* a run whose CSV write failed has shown its previews, copied every selected
\* image and exited with 0
C8_Witness ==
    /\ CsvFailed
    /\ pc = "exit"
    /\ exitStatus = 0
    /\ args.display
    /\ HasEvent("all_copied")
    /\ Len(CopiedRecs) = Len(AllImages(selected_images))

----------------------------------------------------------------------------
(* C9 *)

\* C9 as claimed: a subdirectory that is empty or gone when it is listed is
\* skipped with a warning and the run goes on: a run on valid input never
\* dies of an exception, samples every listed subdirectory and exits with 0.
C9_MissingSubdirSkipped ==
    ~InvalidInput =>
        /\ ~uncaught
        /\ pc = "exit" => exitStatus = 0 /\ Len(calls) = Len(subdirs)

----------------------------------------------------------------------------
(* C10 *)

\* C10: on valid input, when sampling ends with an empty Selection the run
\* exits with 0 from where it stands: nothing is previewed, the CSV file and
\* the file system, the output directory included, stay as found.
C10_EmptySelectionExits ==
    (SamplingDone /\ selected_images = <<>>) =>
        /\ pc \in {"selected", "exit"}
        /\ ~uncaught
        /\ pc = "exit" => exitStatus = 0
        /\ displayed = <<>>
        /\ csvFile = initial.csvFile
        /\ fs = initial.fs
        /\ ~HasEvent("csv_saved") /\ ~HasEvent("csv_failed")
        /\ Attempts = <<>>

\* a run asked for previews, a CSV file and an output directory has exited
\* with 0 over subfolders that hold no image
C10_Witness ==
    /\ pc = "exit"
    /\ exitStatus = 0
    /\ subdirs # <<>>
    /\ selected_images = <<>>
    /\ args.display /\ args.save_csv /\ args.output_dir
    /\ ~exists(fs, OUT)
    /\ csvFile = NoCsv

====
